---- MODULE Spec2Model ----
(***************************************************************************)
(* Paul's Pantry backend (src/server.js, its earlier variant               *)
(* src/unnamed/part_000) and the React client (src/unnamed/part_001):      *)
(* the items table, the duration model, the interpreter for free-text      *)
(* replies and the reconciliation of a change-set against the table.       *)
(*                                                                         *)
(* Conventions.                                                            *)
(*  - A nullable value (a nullable column, an optional JSON field) is a    *)
(*    sequence of length 0 (NULL / undefined) or 1 (<<v>>).                *)
(*  - A string is a sequence of one-character strings.                     *)
(*  - A calendar date is a day number (days since 1970-01-01); an instant  *)
(*    is a number of ticks, TicksPerDay ticks to the day.  A DATE column   *)
(*    read back is the instant of that day's midnight; daylight-saving     *)
(*    shifts are not modelled (a day is always TicksPerDay ticks).         *)
(*  - One action is one turn of the event loop: the awaited operation      *)
(*    (a query, an HTTP call) completes and the handler runs on to its     *)
(*    next await.                                                          *)
(***************************************************************************)
EXTENDS Integers, Sequences, FiniteSets, TLC

(***************************************************************************)
(* Bounds of the model.                                                    *)
(***************************************************************************)
\* ticks in one day: the granularity of the time of day
TicksPerDay == 2
\* the clock runs from the start of Day0 for this many days
MaxDays == 1
\* the items table holds at most this many rows
MaxRows == 3
\* email_logs (and the outbox of sent messages) hold at most this many entries
MaxLogs == 2
\* the longest text of the text-generation call, in tokens
MaxTextLen == 4

(***************************************************************************)
(* Program constants.                                                      *)
(***************************************************************************)
\* the look-ahead window of getItemsRunningLow / getRecentlyPurchased
LowWindowDays == 7
\* the client's window of recent purchases, in days
RecentWindowDays == 7

(***************************************************************************)
(* Nullable values.                                                        *)
(***************************************************************************)
NULL == <<>>
Some(v) == <<v>>
IsNull(x) == Len(x) = 0
Val(x) == x[1]

(***************************************************************************)
(* Dates.  DateParse is what new Date('YYYY-MM-DD') / a DATE literal does  *)
(* to a calendar date: the day number of the proleptic Gregorian calendar. *)
(***************************************************************************)
DateParse(ymd) ==
    LET y   == IF ymd[2] <= 2 THEN ymd[1] - 1 ELSE ymd[1]
        era == y \div 400
        yoe == y - era * 400
        mp  == IF ymd[2] > 2 THEN ymd[2] - 3 ELSE ymd[2] + 9
        doy == (153 * mp + 2) \div 5 + ymd[3] - 1
        doe == yoe * 365 + yoe \div 4 - yoe \div 100 + doy
    IN  era * 146097 + doe - 719468

\* the day the model's clock starts on
Day0 == DateParse(<<2025, 9, 10>>)

\* new Date(item.last_purchased): the instant of a DATE's midnight;
\* new Date(null) is the epoch
NewDate(d) == IF IsNull(d) THEN 0 ELSE Val(d) * TicksPerDay

\* the number a nullable integer contributes to an arithmetic expression
\* (null + n is n in JavaScript)
ToNumber(n) == IF IsNull(n) THEN 0 ELSE Val(n)

\* Math.ceil(a / b) for b > 0
MathCeilDiv(a, b) == -((-a) \div b)

\* the day number of an instant
DayOf(t) == t \div TicksPerDay

(***************************************************************************)
(* Strings.                                                                *)
(***************************************************************************)
\* the characters the model's names are written in, in code-point order
Alphabet ==
    <<" ", "B", "D", "E", "M", "O", "a", "d", "e", "f", "g", "i", "k", "l", "m", "o", "r",
      "s", "t">>

CharCode(c) == CHOOSE i \in 1..Len(Alphabet) : Alphabet[i] = c

LowerChar(c) ==
    CASE c = "B" -> "b"
      [] c = "D" -> "d"
      [] c = "E" -> "e"
      [] c = "M" -> "m"
      [] c = "O" -> "o"
      [] OTHER -> c

\* String.prototype.toLowerCase
toLowerCase(s) == [i \in 1..Len(s) |-> LowerChar(s[i])]

\* String.prototype.includes
includes(s, t) ==
    \E i \in 1..(Len(s) - Len(t) + 1) : SubSeq(s, i, i + Len(t) - 1) = t

\* name ILIKE '%' || token || '%'
ILikeContains(name, token) == includes(toLowerCase(name), toLowerCase(token))

\* s < t in code-point order
RECURSIVE StrLess(_, _)
StrLess(s, t) ==
    IF Len(t) = 0 THEN FALSE
    ELSE IF Len(s) = 0 THEN TRUE
    ELSE IF s[1] # t[1] THEN CharCode(s[1]) < CharCode(t[1])
    ELSE StrLess(Tail(s), Tail(t))

Milk    == <<"M", "i", "l", "k">>
OatMilk == <<"O", "a", "t", " ", "M", "i", "l", "k">>
Bread   == <<"B", "r", "e", "a", "d">>
milk    == <<"m", "i", "l", "k">>
Eggs    == <<"E", "g", "g", "s">>
Ordered == <<"o", "r", "d", "e", "r", "e", "d">>
DogFood == <<"D", "o", "g", " ", "f", "o", "o", "d">>

(***************************************************************************)
(* The duration model.                                                     *)
(***************************************************************************)
\* the filter's test with the lower bound left out
RunningLowTest_NoLowerBound(item, today) ==
    LET lastPurchased    == NewDate(item.last_purchased)
        nextPurchaseDate ==
            lastPurchased + ToNumber(item.estimated_duration_days) * TicksPerDay
        daysUntilNeeded  == MathCeilDiv(nextPurchaseDate - today, TicksPerDay)
    IN  daysUntilNeeded <= LowWindowDays

\* the filter's test with the quotient rounded down instead of up
RunningLowTest_Floor(item, today) ==
    LET lastPurchased    == NewDate(item.last_purchased)
        nextPurchaseDate ==
            lastPurchased + ToNumber(item.estimated_duration_days) * TicksPerDay
        daysUntilNeeded  == (nextPurchaseDate - today) \div TicksPerDay
    IN  daysUntilNeeded <= LowWindowDays /\ daysUntilNeeded >= 0

\* server.js getItemsRunningLow (and the client's copy): the filter's test
RunningLowTest(item, today) ==
    LET lastPurchased    == NewDate(item.last_purchased)
        nextPurchaseDate ==
            lastPurchased + ToNumber(item.estimated_duration_days) * TicksPerDay
        daysUntilNeeded  == MathCeilDiv(nextPurchaseDate - today, TicksPerDay)
    IN  daysUntilNeeded <= LowWindowDays /\ daysUntilNeeded >= 0

getItemsRunningLow(items, today) ==
    SelectSeq(items, LAMBDA item : RunningLowTest(item, today))

\* the days until needed, rounded down instead of up
getDaysUntilNeeded_Floor(item, today) ==
    LET lastPurchased    == NewDate(item.last_purchased)
        nextPurchaseDate ==
            lastPurchased + ToNumber(item.estimated_duration_days) * TicksPerDay
    IN  (nextPurchaseDate - today) \div TicksPerDay

\* the client's getDaysUntilNeeded
getDaysUntilNeeded(item, today) ==
    LET lastPurchased    == NewDate(item.last_purchased)
        nextPurchaseDate ==
            lastPurchased + ToNumber(item.estimated_duration_days) * TicksPerDay
    IN  MathCeilDiv(nextPurchaseDate - today, TicksPerDay)

\* the client's getRecentlyPurchased: the filter's test
RecentTest(item, today) ==
    LET lastPurchased     == NewDate(item.last_purchased)
        daysSincePurchase == MathCeilDiv(today - lastPurchased, TicksPerDay)
    IN  daysSincePurchase <= RecentWindowDays /\ daysSincePurchase >= 0

getRecentlyPurchased(items, today) ==
    SelectSeq(items, LAMBDA item : RecentTest(item, today))

\* the client's isOverdue badge
isOverdue(daysUntil) == daysUntil < 0

(***************************************************************************)
(* The interpreter (processWithClaude).                                    *)
(*                                                                         *)
(* The text the model returns is a sequence of tokens: "FENCE" is ```,     *)
(* "json" the word json, "WS" a run of whitespace, "DOC" the text of one   *)
(* JSON value and "JUNK" any other text.  The value the "DOC" token        *)
(* denotes travels beside the text, in the response's doc field.           *)
(***************************************************************************)
Tokens == {"FENCE", "json", "WS", "DOC", "JUNK"}

EmptyChangeSet == [updates |-> <<>>, newItems |-> <<>>, removeItems |-> <<>>]

\* what a call gives back: a value, or an exception
Returned(v) == [threw |-> FALSE, value |-> v]
Thrown == [threw |-> TRUE, value |-> EmptyChangeSet]

\* String.prototype.trim
RECURSIVE TrimStart(_)
TrimStart(s) == IF Len(s) > 0 /\ s[1] = "WS" THEN TrimStart(Tail(s)) ELSE s
RECURSIVE TrimEnd(_)
TrimEnd(s) ==
    IF Len(s) > 0 /\ s[Len(s)] = "WS" THEN TrimEnd(SubSeq(s, 1, Len(s) - 1)) ELSE s
trim(s) == TrimEnd(TrimStart(s))

\* String.prototype.startsWith
startsWith(s, prefix) == Len(s) >= Len(prefix) /\ SubSeq(s, 1, Len(prefix)) = prefix

\* s.replace(/^```json\s*/, '')
ReplaceJsonFenceStart(s) ==
    IF startsWith(s, <<"FENCE", "json">>) THEN TrimStart(SubSeq(s, 3, Len(s))) ELSE s

\* s.replace(/^```\s*/, '')
ReplaceFenceStart(s) ==
    IF startsWith(s, <<"FENCE">>) THEN TrimStart(Tail(s)) ELSE s

\* s.replace(/\s*```$/, '')
ReplaceFenceEnd(s) ==
    IF Len(s) > 0 /\ s[Len(s)] = "FENCE" THEN TrimEnd(SubSeq(s, 1, Len(s) - 1)) ELSE s

\* server.js 277-283: the cleaning of the model's text
CleanText(claudeText) ==
    LET t0 == trim(claudeText)
        t1 == IF startsWith(t0, <<"FENCE", "json">>)
              THEN ReplaceFenceEnd(ReplaceJsonFenceStart(t0)) ELSE t0
    IN  IF startsWith(t1, <<"FENCE">>)
        THEN ReplaceFenceEnd(ReplaceFenceStart(t1)) ELSE t1

\* JSON.parse: one JSON value, whitespace allowed around it
JsonParse(text, doc) ==
    IF trim(text) = <<"DOC">> THEN Returned(doc) ELSE Thrown

\* server.js 285-297: the inner try/catch.  Reading a property of null throws
\* inside the try; a list the document lacks is an empty list (x || []).
ParseAnalysis(cleanedText, doc) ==
    LET analysis == JsonParse(cleanedText, doc)
    IN  IF analysis.threw \/ analysis.value.kind = "null"
        THEN Returned(EmptyChangeSet)
        ELSE Returned([updates     |-> analysis.value.updates,
                       newItems    |-> analysis.value.newItems,
                       removeItems |-> analysis.value.removeItems])

\* server.js 156-298: the body of the outer try
ClaudeTryBody(resp) ==
    CASE resp.outcome = "throw"   -> Thrown
      [] resp.outcome = "non2xx"  -> Thrown
      [] resp.outcome = "badbody" -> Thrown
      [] OTHER -> ParseAnalysis(CleanText(resp.text), resp.doc)

\* processWithClaude, were its outer catch to rethrow
processWithClaude_Rethrow(hasApiKey, resp) ==
    IF ~hasApiKey THEN Returned(EmptyChangeSet) ELSE ClaudeTryBody(resp)

\* server.js 150-303
processWithClaude(hasApiKey, resp) ==
    IF ~hasApiKey THEN Returned(EmptyChangeSet)
    ELSE LET r == ClaudeTryBody(resp)
         IN  IF r.threw THEN Returned(EmptyChangeSet) ELSE r

(***************************************************************************)
(* The items table and its statements.  A row's id is its position: ids    *)
(* are issued in sequence and rows are never removed.                      *)
(***************************************************************************)
Row(id, name, category, lp, dur, status, created) ==
    [id |-> id, name |-> name, category |-> category, last_purchased |-> lp,
     estimated_duration_days |-> dur, status |-> status, created_at |-> created]

\* SELECT * FROM items, the WHERE clause left out
SelectActive_All(tbl) == tbl

\* SELECT * FROM items WHERE status = 'active'
SelectActive(tbl) == SelectSeq(tbl, LAMBDA row : row.status = "active")

\* the categories, in code-point order
CategoryOrder == <<"Baby", "Car", "Food", "Health", "House", "Pet">>
CategoryRank(c) == CHOOSE i \in 1..Len(CategoryOrder) : CategoryOrder[i] = c

\* ORDER BY category, name
RowLess(a, b) ==
    \/ CategoryRank(a.category) < CategoryRank(b.category)
    \/ a.category = b.category /\ StrLess(a.name, b.name)

RECURSIVE InsertSorted(_, _)
InsertSorted(row, rows) ==
    IF Len(rows) = 0 THEN <<row>>
    ELSE IF RowLess(row, rows[1]) THEN <<row>> \o rows
    ELSE <<rows[1]>> \o InsertSorted(row, Tail(rows))

RECURSIVE OrderByCategoryName(_)
OrderByCategoryName(rows) ==
    IF Len(rows) = 0 THEN <<>>
    ELSE InsertSorted(rows[1], OrderByCategoryName(Tail(rows)))

\* SELECT * FROM items WHERE status = 'active' ORDER BY category, name
SelectActiveOrdered(tbl) == OrderByCategoryName(SelectActive(tbl))

\* name TEXT NOT NULL, category TEXT NOT NULL
ViolatesNotNull(name, category) == IsNull(name) \/ IsNull(category)

\* the INSERT, were it to add the row twice
InsertItem_Twice(tbl, name, category, lp, dur, t) ==
    tbl \o << Row(Len(tbl) + 1, Val(name), Val(category), lp, dur, "active", t),
              Row(Len(tbl) + 2, Val(name), Val(category), lp, dur, "active", t) >>

\* INSERT INTO items (name, category, last_purchased, estimated_duration_days)
\* VALUES ($1, $2, $3, $4): status defaults to 'active', created_at to now
InsertItem(tbl, name, category, lp, dur, t) ==
    Append(tbl, Row(Len(tbl) + 1, Val(name), Val(category), lp, dur, "active", t))

\* UPDATE items SET last_purchased = $1, estimated_duration_days = $2 WHERE id = $3
UpdatePurchase(tbl, lp, dur, id) ==
    [i \in 1..Len(tbl) |->
        IF tbl[i].id = id
        THEN [tbl[i] EXCEPT !.last_purchased = lp, !.estimated_duration_days = dur]
        ELSE tbl[i]]

\* the edit, were it to set status = 'active' as well
UpdateItem_ResetsStatus(tbl, name, category, lp, dur, id) ==
    [i \in 1..Len(tbl) |->
        IF tbl[i].id = id
        THEN [tbl[i] EXCEPT !.name = Val(name), !.category = Val(category),
                            !.last_purchased = lp, !.estimated_duration_days = dur,
                            !.status = "active"]
        ELSE tbl[i]]

\* UPDATE items SET name = $1, category = $2, last_purchased = $3,
\* estimated_duration_days = $4 WHERE id = $5
UpdateItem(tbl, name, category, lp, dur, id) ==
    [i \in 1..Len(tbl) |->
        IF tbl[i].id = id
        THEN [tbl[i] EXCEPT !.name = Val(name), !.category = Val(category),
                            !.last_purchased = lp, !.estimated_duration_days = dur]
        ELSE tbl[i]]

\* UPDATE items SET status = 'deleted' WHERE id = $1
SoftDeleteById(tbl, id) ==
    [i \in 1..Len(tbl) |->
        IF tbl[i].id = id THEN [tbl[i] EXCEPT !.status = "deleted"] ELSE tbl[i]]

\* the removal, were it to match with LIKE (case-sensitive)
SoftDeleteByName_CaseSensitive(tbl, token) ==
    [i \in 1..Len(tbl) |->
        IF includes(tbl[i].name, token)
        THEN [tbl[i] EXCEPT !.status = "deleted"] ELSE tbl[i]]

\* UPDATE items SET status = 'deleted' WHERE name ILIKE '%' || token || '%'
SoftDeleteByName(tbl, token) ==
    [i \in 1..Len(tbl) |->
        IF ILikeContains(tbl[i].name, token)
        THEN [tbl[i] EXCEPT !.status = "deleted"] ELSE tbl[i]]

\* the rows a statement with a WHERE clause touches (RETURNING *)
RowsWithId(tbl, id) == SelectSeq(tbl, LAMBDA row : row.id = id)
RowsILike(tbl, token) == SelectSeq(tbl, LAMBDA row : ILikeContains(row.name, token))

\* the elements of a sequence
Range(seq) == { seq[i] : i \in 1..Len(seq) }

(***************************************************************************)
(* The notification composer.                                              *)
(***************************************************************************)
\* the keys of groupedItems, in the order reduce() creates them
RECURSIVE GroupKeys(_, _)
GroupKeys(lowItems, seen) ==
    IF Len(lowItems) = 0 THEN <<>>
    ELSE IF lowItems[1].category \in seen THEN GroupKeys(Tail(lowItems), seen)
    ELSE <<lowItems[1].category>>
             \o GroupKeys(Tail(lowItems), seen \cup {lowItems[1].category})

CategoryIcon(category) ==
    CASE category = "House" -> "house"
      [] category = "Baby"  -> "baby"
      [] category = "Food"  -> "bread"
      [] OTHER -> "dog"

NamesOf(items) == [i \in 1..Len(items) |-> items[i].name]

\* the composer, were it to compose an e-mail for no items too
generateReminderEmail_NeverNull(lowItems) ==
    LET keys == GroupKeys(lowItems, {})
    IN  Some([k \in 1..Len(keys) |->
                [icon     |-> CategoryIcon(keys[k]),
                 category |-> keys[k],
                 names    |-> NamesOf(SelectSeq(lowItems,
                                 LAMBDA item : item.category = keys[k]))]])

\* server.js 117-139: null for no items, else one line per category
generateReminderEmail(lowItems) ==
    IF Len(lowItems) = 0 THEN NULL
    ELSE LET keys == GroupKeys(lowItems, {})
         IN  Some([k \in 1..Len(keys) |->
                     [icon     |-> CategoryIcon(keys[k]),
                      category |-> keys[k],
                      names    |-> NamesOf(SelectSeq(lowItems,
                                      LAMBDA item : item.category = keys[k]))]])

(***************************************************************************)
(* State.                                                                  *)
(***************************************************************************)
VARIABLES
    store,       \* the items table
    email_logs,  \* the email_logs table
    outbox,      \* the e-mails SendGrid has accepted
    req,         \* the requests in flight that call the interpreter, per slot
    rem,         \* the reminder pipelines in flight, per trigger
    ui,          \* the client: its items state and what its last render showed
    now,         \* the clock, in ticks
    env          \* process.env: which keys are configured

vars == <<store, email_logs, outbox, req, rem, ui, now, env>>

\* the slots of requests in flight
Procs == {1}
\* the two triggers of the reminder pipeline
Triggers == {"manual", "automatic"}

NoDoc == [kind |-> "null", updates |-> <<>>, newItems |-> <<>>, removeItems |-> <<>>]
NoResp == [outcome |-> "none", text |-> <<>>, doc |-> NoDoc]

IdleReq ==
    [endpoint |-> "none", pc |-> "idle", userInput |-> NULL, items |-> <<>>,
     resp |-> NoResp,
     claudeResponse |-> EmptyChangeSet, u |-> 1, n |-> 1, r |-> 1,
     updatesApplied |-> <<>>, inserted |-> {}, status |-> 0]

IdleRem == [pc |-> "idle", lowItems |-> <<>>, emailContent |-> NULL, status |-> 0]

IdleUi == [items |-> <<>>, upcomingItems |-> <<>>, recentItems |-> <<>>, badges |-> <<>>]

InitWith(tables, envs, times) ==
    /\ store \in tables
    /\ email_logs = <<>>
    /\ outbox = <<>>
    /\ req = [p \in Procs |-> IdleReq]
    /\ rem = [t \in Triggers |-> IdleRem]
    /\ ui = IdleUi
    /\ now \in times
    /\ env \in envs

(***************************************************************************)
(* The reconciliation handlers: POST /api/process-response ("api"),        *)
(* POST /webhook/sms-reply of server.js ("sms") and of the earlier variant *)
(* part_000 ("sms0"), and POST /api/debug-claude ("debug").                *)
(***************************************************************************)
Fail500(rq) == [rq EXCEPT !.pc = "done", !.status = 500]

\* items.find(i => i.name.toLowerCase().includes(token.toLowerCase()) ||
\*                 token.toLowerCase().includes(i.name.toLowerCase()))
FindByName(items, token) ==
    LET found == SelectSeq(items, LAMBDA i :
                     \/ includes(toLowerCase(i.name), toLowerCase(token))
                     \/ includes(toLowerCase(token), toLowerCase(i.name)))
    IN  IF Len(found) = 0 THEN NULL ELSE Some(found[1])

\* the id an update entry's UPDATE statement is issued for; NULL when the
\* entry issues none
UpdateTarget(endpoint, update, items) ==
    IF ~IsNull(update.itemId) THEN update.itemId
    ELSE IF endpoint = "api" /\ ~IsNull(update.itemName)
    THEN LET item == FindByName(items, Val(update.itemName))
         IN  IF IsNull(item) THEN NULL ELSE Some(Val(item).id)
    ELSE NULL

\* the loop over updates runs on, without awaiting, over the entries that
\* issue no statement
RECURSIVE SkipUpdates(_, _, _, _)
SkipUpdates(endpoint, updates, items, u) ==
    IF u > Len(updates) THEN u
    ELSE IF ~IsNull(UpdateTarget(endpoint, updates[u], items)) THEN u
    ELSE SkipUpdates(endpoint, updates, items, u + 1)

\* after the three loops: the confirmation SMS (sms-reply only), the response
Finish(rq) ==
    IF /\ rq.endpoint \in {"sms", "sms0"}
       /\ Len(rq.updatesApplied) > 0
       /\ env.TWILIO_PHONE_NUMBER
    THEN [rq EXCEPT !.pc = "confirm"]
    ELSE [rq EXCEPT !.pc = "done", !.status = 200]

\* Proceed, were the removals loop placed before the insertions loop
Proceed_RemovalsFirst(rq) ==
    LET cs == rq.claudeResponse
        u2 == SkipUpdates(rq.endpoint, cs.updates, rq.items, rq.u)
        rq2 == [rq EXCEPT !.u = u2]
    IN  IF u2 <= Len(cs.updates) THEN [rq2 EXCEPT !.pc = "updates"]
        ELSE IF rq.r <= Len(cs.removeItems) THEN [rq2 EXCEPT !.pc = "removeItems"]
        ELSE IF rq.n <= Len(cs.newItems) THEN [rq2 EXCEPT !.pc = "newItems"]
        ELSE Finish(rq2)

\* the handler runs on to its next await: the statement of the next entry of
\* the updates loop, then of the newItems loop, then of the removeItems loop
Proceed(rq) ==
    LET cs == rq.claudeResponse
        u2 == SkipUpdates(rq.endpoint, cs.updates, rq.items, rq.u)
        rq2 == [rq EXCEPT !.u = u2]
    IN  IF u2 <= Len(cs.updates) THEN [rq2 EXCEPT !.pc = "updates"]
        ELSE IF rq.n <= Len(cs.newItems) THEN [rq2 EXCEPT !.pc = "newItems"]
        ELSE IF rq.r <= Len(cs.removeItems) THEN [rq2 EXCEPT !.pc = "removeItems"]
        ELSE Finish(rq2)

\* AfterInterpret, were an empty change-set answered as an error
AfterInterpret_ErrorOnEmpty(rq, result) ==
    IF result.threw \/ result.value = EmptyChangeSet THEN Fail500(rq)
    ELSE LET rq1 == [rq EXCEPT !.claudeResponse = result.value]
         IN  IF rq.endpoint = "debug"
             THEN [rq1 EXCEPT !.pc = "done", !.status = 200]
             ELSE Proceed(rq1)

\* the handler's turn once processWithClaude has settled
AfterInterpret(rq, result) ==
    IF result.threw THEN Fail500(rq)
    ELSE LET rq1 == [rq EXCEPT !.claudeResponse = result.value]
         IN  IF rq.endpoint = "debug"
             THEN [rq1 EXCEPT !.pc = "done", !.status = 200]
             ELSE Proceed(rq1)

\* the rows the statements still to be issued by requests in flight will add
PendingInserts(rq) ==
    IF rq.pc \in {"updates", "newItems"}
    THEN Len(rq.claudeResponse.newItems) - rq.n + 1 ELSE 0
RECURSIVE SumPending(_)
SumPending(ps) ==
    IF ps = {} THEN 0
    ELSE LET p == CHOOSE q \in ps : TRUE
         IN  PendingInserts(req[p]) + SumPending(ps \ {p})
RoomFor(k) == Len(store) + SumPending(DOMAIN req) + k <= MaxRows

\* the request arrives with its utterance (req.body.userInput, or Body of an
\* SMS; NULL when the body has none); SELECT ... WHERE status = 'active'
\* completes and processWithClaude is called
ReceiveInput(p, endpoint, ok, userInput) ==
    /\ req[p].pc = "idle"
    /\ LET rq0 == [IdleReq EXCEPT !.endpoint = endpoint, !.userInput = userInput]
           rq1 == [rq0 EXCEPT !.items = SelectActive(store)]
       IN  req' = [req EXCEPT ![p] =
               IF ~ok THEN Fail500(rq0)
               ELSE IF env.ANTHROPIC_API_KEY THEN [rq1 EXCEPT !.pc = "claude"]
               ELSE AfterInterpret(rq1, processWithClaude(FALSE, NoResp))]
    /\ UNCHANGED <<store, email_logs, outbox, rem, ui, now, env>>

\* a request whose utterance is left open
Receive(p, endpoint, ok) == ReceiveInput(p, endpoint, ok, Some(<<>>))

\* the text-generation call settles
ClaudeResponds(p, resp) ==
    /\ req[p].pc = "claude"
    /\ RoomFor(Len(resp.doc.newItems))
    /\ req' = [req EXCEPT ![p] =
           AfterInterpret([req[p] EXCEPT !.resp = resp],
                          processWithClaude(TRUE, resp))]
    /\ UNCHANGED <<store, email_logs, outbox, rem, ui, now, env>>

Line(op, name) == [op |-> op, name |-> name]

\* the UPDATE, were it to write only to a row that is as the request read it
UpdateCompletes_IfUnchanged(p, ok) ==
    /\ req[p].pc = "updates"
    /\ LET rq     == req[p]
           update == rq.claudeResponse.updates[rq.u]
           id     == Val(UpdateTarget(rq.endpoint, update, rq.items))
           name   == IF ~IsNull(update.itemId) THEN update.itemName
                     ELSE Some(Val(FindByName(rq.items, Val(update.itemName))).name)
           asRead == \E k \in 1..Len(rq.items) : rq.items[k] \in Range(RowsWithId(store, id))
           next   == [rq EXCEPT !.u = rq.u + 1]
       IN  IF ok /\ asRead
           THEN /\ store' = UpdatePurchase(store, update.newLastPurchased,
                                           update.newDurationDays, id)
                /\ req' = [req EXCEPT ![p] = Proceed(
                       [next EXCEPT !.updatesApplied =
                                Append(@, Line("Updated", name))])]
           ELSE /\ store' = store
                /\ req' = [req EXCEPT ![p] =
                       IF rq.endpoint = "sms" THEN Proceed(next) ELSE Fail500(rq)]
    /\ UNCHANGED <<email_logs, outbox, rem, ui, now, env>>

\* the UPDATE of the current update entry completes
UpdateCompletes(p, ok) ==
    /\ req[p].pc = "updates"
    /\ LET rq     == req[p]
           update == rq.claudeResponse.updates[rq.u]
           id     == Val(UpdateTarget(rq.endpoint, update, rq.items))
           name   == IF ~IsNull(update.itemId) THEN update.itemName
                     ELSE Some(Val(FindByName(rq.items, Val(update.itemName))).name)
           pushed == rq.endpoint # "sms" \/ Len(RowsWithId(store, id)) > 0
           next   == [rq EXCEPT !.u = rq.u + 1]
       IN  IF ok
           THEN /\ store' = UpdatePurchase(store, update.newLastPurchased,
                                           update.newDurationDays, id)
                /\ req' = [req EXCEPT ![p] = Proceed(
                       IF pushed
                       THEN [next EXCEPT !.updatesApplied =
                                Append(@, Line("Updated", name))]
                       ELSE next)]
           ELSE /\ store' = store
                /\ req' = [req EXCEPT ![p] =
                       IF rq.endpoint = "sms" THEN Proceed(next) ELSE Fail500(rq)]
    /\ UNCHANGED <<email_logs, outbox, rem, ui, now, env>>

\* the INSERT of the current newItems entry completes
InsertCompletes(p, ok) ==
    /\ req[p].pc = "newItems"
    /\ LET rq      == req[p]
           newItem == rq.claudeResponse.newItems[rq.n]
           done    == ok /\ ~ViolatesNotNull(newItem.itemName, newItem.category)
           next    == [rq EXCEPT !.n = rq.n + 1]
       IN  IF done
           THEN /\ store' = InsertItem(store, newItem.itemName, newItem.category,
                                       newItem.lastPurchased, newItem.durationDays, now)
                /\ req' = [req EXCEPT ![p] = Proceed(
                       [next EXCEPT !.updatesApplied =
                                        Append(@, Line("Added", newItem.itemName)),
                                    !.inserted = @ \cup {Len(store) + 1}])]
           ELSE /\ store' = store
                /\ req' = [req EXCEPT ![p] =
                       IF rq.endpoint = "sms" THEN Proceed(next) ELSE Fail500(rq)]
    /\ UNCHANGED <<email_logs, outbox, rem, ui, now, env>>

\* the UPDATE ... SET status = 'deleted' of the current removeItems entry completes
RemoveCompletes(p, ok) ==
    /\ req[p].pc = "removeItems"
    /\ LET rq         == req[p]
           removeItem == rq.claudeResponse.removeItems[rq.r]
           token      == Val(removeItem.itemName)
           pushed     == rq.endpoint # "sms" \/ Len(RowsILike(store, token)) > 0
           next       == [rq EXCEPT !.r = rq.r + 1]
       IN  IF ok
           THEN /\ store' = SoftDeleteByName(store, token)
                /\ req' = [req EXCEPT ![p] = Proceed(
                       IF pushed
                       THEN [next EXCEPT !.updatesApplied =
                                Append(@, Line("Removed", removeItem.itemName))]
                       ELSE next)]
           ELSE /\ store' = store
                /\ req' = [req EXCEPT ![p] =
                       IF rq.endpoint = "sms" THEN Proceed(next) ELSE Fail500(rq)]
    /\ UNCHANGED <<email_logs, outbox, rem, ui, now, env>>

\* twilioSendSMS of the confirmation settles
ConfirmCompletes(p, ok) ==
    /\ req[p].pc = "confirm"
    /\ req' = [req EXCEPT ![p] =
           IF ok THEN [req[p] EXCEPT !.pc = "done", !.status = 200]
           ELSE Fail500(req[p])]
    /\ UNCHANGED <<store, email_logs, outbox, rem, ui, now, env>>

\* the response has gone out; the slot takes the next request
Reset(p) ==
    /\ req[p].pc = "done"
    /\ req' = [req EXCEPT ![p] = IdleReq]
    /\ UNCHANGED <<store, email_logs, outbox, rem, ui, now, env>>

(***************************************************************************)
(* The item routes.                                                        *)
(***************************************************************************)
\* POST /api/items
PostItem(body) ==
    /\ RoomFor(1)
    /\ ~ViolatesNotNull(body.name, body.category)
    /\ store' = InsertItem(store, body.name, body.category, body.lastPurchased,
                           body.estimatedDurationDays, now)
    /\ UNCHANGED <<email_logs, outbox, req, rem, ui, now, env>>

\* PUT /api/items/:id
PutItem(id, body) ==
    /\ ~ViolatesNotNull(body.name, body.category)
    /\ store' = UpdateItem(store, body.name, body.category, body.lastPurchased,
                           body.estimatedDurationDays, id)
    /\ UNCHANGED <<email_logs, outbox, req, rem, ui, now, env>>

\* DELETE /api/items/:id
DeleteItem(id) ==
    /\ store' = SoftDeleteById(store, id)
    /\ UNCHANGED <<email_logs, outbox, req, rem, ui, now, env>>

(***************************************************************************)
(* The reminder pipeline: POST /api/send-reminder ("manual") and the daily *)
(* cron job ("automatic").                                                 *)
(***************************************************************************)
\* the e-mails handed to SendGrid and not yet settled
Sending == Cardinality({t \in Triggers : rem[t].pc \in {"send", "log"}})

\* the trigger, were it to wait while the other pipeline is in flight
ReminderStart_Exclusive(t, ok) ==
    /\ rem[t].pc = "idle"
    /\ \A s \in Triggers \ {t} : rem[s].pc \notin {"send", "log"}
    /\ Len(outbox) + Sending < MaxLogs
    /\ LET lowItems     == getItemsRunningLow(SelectActive(store), now)
           emailContent == generateReminderEmail(lowItems)
       IN  rem' = [rem EXCEPT ![t] =
               IF ~ok THEN [IdleRem EXCEPT !.pc = "done", !.status = 500]
               ELSE IF (t = "manual" /\ IsNull(emailContent))
                       \/ (t = "automatic" /\ Len(lowItems) = 0)
               THEN [IdleRem EXCEPT !.pc = "done", !.status = 200]
               ELSE [pc |-> "send", lowItems |-> lowItems,
                     emailContent |-> emailContent, status |-> 0]]
    /\ UNCHANGED <<store, email_logs, outbox, req, ui, now, env>>

\* the trigger fires; the SELECT completes, the low items are computed, the
\* e-mail is composed and handed to sgMail.send
ReminderStart(t, ok) ==
    /\ rem[t].pc = "idle"
    /\ Len(outbox) + Sending < MaxLogs
    /\ LET lowItems     == getItemsRunningLow(SelectActive(store), now)
           emailContent == generateReminderEmail(lowItems)
       IN  rem' = [rem EXCEPT ![t] =
               IF ~ok THEN [IdleRem EXCEPT !.pc = "done", !.status = 500]
               ELSE IF (t = "manual" /\ IsNull(emailContent))
                       \/ (t = "automatic" /\ Len(lowItems) = 0)
               THEN [IdleRem EXCEPT !.pc = "done", !.status = 200]
               ELSE [pc |-> "send", lowItems |-> lowItems,
                     emailContent |-> emailContent, status |-> 0]]
    /\ UNCHANGED <<store, email_logs, outbox, req, ui, now, env>>

\* the send, were the log statement issued after a failed send too
SendCompletes_LogsAnyway(t, ok) ==
    /\ rem[t].pc = "send"
    /\ IF ok
       THEN /\ outbox' = Append(outbox, [text |-> Val(rem[t].emailContent), type |-> t])
            /\ rem' = [rem EXCEPT ![t].pc = "log"]
       ELSE /\ outbox' = outbox
            /\ rem' = [rem EXCEPT ![t].pc = "log"]
    /\ UNCHANGED <<store, email_logs, req, ui, now, env>>

\* the send, were its failure to delete the first of the low items
SendCompletes_DeletesOnFailure(t, ok) ==
    /\ rem[t].pc = "send"
    /\ IF ok
       THEN /\ outbox' = Append(outbox, [text |-> Val(rem[t].emailContent), type |-> t])
            /\ rem' = [rem EXCEPT ![t].pc = "log"]
            /\ store' = store
       ELSE /\ outbox' = outbox
            /\ rem' = [rem EXCEPT ![t].pc = "done", ![t].status = 500]
            /\ store' = SoftDeleteById(store, rem[t].lowItems[1].id)
    /\ UNCHANGED <<email_logs, req, ui, now, env>>

\* sgMail.send settles; on success the INSERT INTO email_logs is issued
SendCompletes(t, ok) ==
    /\ rem[t].pc = "send"
    /\ IF ok
       THEN /\ outbox' = Append(outbox, [text |-> Val(rem[t].emailContent), type |-> t])
            /\ rem' = [rem EXCEPT ![t].pc = "log"]
       ELSE /\ outbox' = outbox
            /\ rem' = [rem EXCEPT ![t].pc = "done", ![t].status = 500]
    /\ UNCHANGED <<store, email_logs, req, ui, now, env>>

\* the INSERT INTO email_logs completes
LogCompletes(t, ok) ==
    /\ rem[t].pc = "log"
    /\ IF ok
       THEN /\ email_logs' = Append(email_logs,
                                [email_content |-> Val(rem[t].emailContent), type |-> t])
            /\ rem' = [rem EXCEPT ![t].pc = "done", ![t].status = 200]
       ELSE /\ email_logs' = email_logs
            /\ rem' = [rem EXCEPT ![t].pc = "done", ![t].status = 500]
    /\ UNCHANGED <<store, outbox, req, ui, now, env>>

\* the pipeline has ended; the trigger can fire again
ReminderReset(t) ==
    /\ rem[t].pc = "done"
    /\ rem' = [rem EXCEPT ![t] = IdleRem]
    /\ UNCHANGED <<store, email_logs, outbox, req, ui, now, env>>

(***************************************************************************)
(* The client (part_001): its items state and what a render derives.       *)
(***************************************************************************)
\* the component body: upcomingItems, recentItems and, per listed item, its
\* badges
Render(items, t) ==
    LET upcomingItems == getItemsRunningLow(items, t)
    IN  [items         |-> items,
         upcomingItems |-> upcomingItems,
         recentItems   |-> getRecentlyPurchased(items, t),
         badges        |-> [k \in 1..Len(items) |->
             LET daysUntil == getDaysUntilNeeded(items[k], t)
             IN  [daysUntil  |-> daysUntil,
                  isUpcoming |-> \E j \in 1..Len(upcomingItems) :
                                     upcomingItems[j] = items[k],
                  isOverdue  |-> isOverdue(daysUntil)]]]

\* fetchItems: GET /api/items answers, setItems re-renders
UiFetch ==
    /\ ui' = Render(SelectActiveOrdered(store), now)
    /\ UNCHANGED <<store, email_logs, outbox, req, rem, now, env>>

\* a later render of the same items state
UiRender ==
    /\ ui' = Render(ui.items, now)
    /\ UNCHANGED <<store, email_logs, outbox, req, rem, now, env>>

\* time passes
Tick ==
    /\ now < (Day0 + MaxDays) * TicksPerDay
    /\ now' = now + 1
    /\ UNCHANGED <<store, email_logs, outbox, req, rem, ui, env>>

(***************************************************************************)
(* Inputs.                                                                 *)
(***************************************************************************)
U(id, name, lp, dur) ==
    [itemId |-> id, itemName |-> name, newLastPurchased |-> lp, newDurationDays |-> dur]
N(name, category, lp, dur) ==
    [itemName |-> name, category |-> category, lastPurchased |-> lp, durationDays |-> dur]
R(name) == [itemName |-> name]

Doc(us, ns, rs) == [kind |-> "object", updates |-> us, newItems |-> ns, removeItems |-> rs]

\* the failures of the text-generation call: fetch rejects, a status outside
\* 2xx, a body that is not the expected JSON envelope, a text that is no JSON
FailedResponses ==
    { [outcome |-> o, text |-> <<>>, doc |-> NoDoc] : o \in {"throw", "non2xx", "badbody"} }
    \cup { [outcome |-> "text", text |-> <<"JUNK">>, doc |-> NoDoc] }

TextResponse(text, doc) == [outcome |-> "text", text |-> text, doc |-> doc]

\* the tables the server may start on (the table outlives the process)
InitTables ==
    { << Row(1, Milk, "Food", Some(Day0 - 10), Some(14), "active", 0) >>,
      << Row(1, Milk, "Food", Some(Day0 - 10), Some(14), "active", 0),
         Row(2, OatMilk, "Food", Some(Day0 - 3), Some(30), "deleted", 0) >> }

\* process.env: with both keys, without the Twilio number, without the API key
Envs ==
    { [ANTHROPIC_API_KEY |-> TRUE,  TWILIO_PHONE_NUMBER |-> TRUE],
      [ANTHROPIC_API_KEY |-> TRUE,  TWILIO_PHONE_NUMBER |-> FALSE],
      [ANTHROPIC_API_KEY |-> FALSE, TWILIO_PHONE_NUMBER |-> TRUE] }

\* update entries: by id with both fields, by id with one field, by name,
\* by an id and by a name that resolve to nothing
UFull     == U(Some(1), Some(Milk), Some(Day0), Some(30))
UDurOnly  == U(Some(1), Some(Milk), NULL, Some(30))
ULpOnly   == U(Some(2), Some(OatMilk), Some(Day0), NULL)
UByName   == U(NULL, Some(milk), Some(Day0), Some(30))
UNoId     == U(Some(9), Some(Eggs), Some(Day0), Some(30))
UNoName   == U(NULL, Some(Eggs), Some(Day0), Some(30))
\* new-item entries: complete, and with nothing but a name
NOatMilk  == N(Some(OatMilk), Some("Food"), Some(Day0), Some(30))
NBare     == N(Some(Bread), NULL, NULL, NULL)
\* removal entries: one that matches Milk and Oat Milk, one that matches nothing
RMilk     == R(Some(milk))
REggs     == R(Some(Eggs))

Docs ==
    { Doc(<<>>, <<>>, <<>>),
      Doc(<<UFull>>, <<NOatMilk>>, <<RMilk>>),
      Doc(<<UDurOnly>>, <<>>, <<>>),
      Doc(<<ULpOnly>>, <<>>, <<REggs>>),
      Doc(<<UByName>>, <<>>, <<>>),
      Doc(<<UNoId, UFull>>, <<>>, <<>>),
      Doc(<<UNoName, UByName>>, <<>>, <<>>),
      Doc(<<>>, <<NBare, NOatMilk>>, <<REggs, RMilk>>) }

Responses ==
    FailedResponses
    \cup { TextResponse(<<"DOC">>, d) : d \in Docs }
    \cup { TextResponse(<<"FENCE", "json", "WS", "DOC", "WS", "FENCE">>,
                        Doc(<<>>, <<>>, <<RMilk>>)) }

PostBodies ==
    { [name |-> Some(Bread), category |-> Some("Food"),
       lastPurchased |-> Some(Day0), estimatedDurationDays |-> Some(30)],
      [name |-> Some(Bread), category |-> Some("Food"),
       lastPurchased |-> Some(Day0), estimatedDurationDays |-> Some(0)] }

PutBodies ==
    { [name |-> Some(Bread), category |-> Some("Food"),
       lastPurchased |-> Some(Day0), estimatedDurationDays |-> Some(30)] }

(***************************************************************************)
(* Spec: the reconciliation endpoints, with items deleted beside them.     *)
(***************************************************************************)
Init == InitWith(InitTables, Envs, {Day0 * TicksPerDay})

Next ==
    \/ \E p \in Procs, e \in {"api", "sms", "sms0"}, ok \in BOOLEAN : Receive(p, e, ok)
    \/ \E p \in Procs, resp \in Responses : ClaudeResponds(p, resp)
    \/ \E p \in Procs, ok \in BOOLEAN : UpdateCompletes(p, ok)
    \/ \E p \in Procs, ok \in BOOLEAN : InsertCompletes(p, ok)
    \/ \E p \in Procs, ok \in BOOLEAN : RemoveCompletes(p, ok)
    \/ \E p \in Procs, ok \in BOOLEAN : ConfirmCompletes(p, ok)
    \/ \E p \in Procs : Reset(p)
    \/ \E id \in 1..MaxRows : DeleteItem(id)

Spec == Init /\ [][Next]_vars

(***************************************************************************)
(* Claims about the reconciliation endpoints (checked under Spec).         *)
(***************************************************************************)
ReconcileEndpoints == {"api", "sms", "sms0"}

\* C3: an update entry that supplies only one of newLastPurchased and
\* newDurationDays overwrites only that field of its target: the other field
\* and the row's name, category, status and created_at keep their values.
C3_PartialUpdateKeepsTheRest ==
    [][\A p \in Procs :
        UpdateCompletes(p, TRUE) =>
            LET update == req[p].claudeResponse.updates[req[p].u]
                id     == Val(UpdateTarget(req[p].endpoint, update, req[p].items))
            IN  IsNull(update.newLastPurchased) # IsNull(update.newDurationDays) =>
                    \A i \in 1..Len(store) :
                        store[i].id = id =>
                            /\ IsNull(update.newLastPurchased) =>
                                   store'[i].last_purchased = store[i].last_purchased
                            /\ IsNull(update.newDurationDays) =>
                                   store'[i].estimated_duration_days =
                                       store[i].estimated_duration_days
                            /\ store'[i].name = store[i].name
                            /\ store'[i].category = store[i].category
                            /\ store'[i].status = store[i].status
                            /\ store'[i].created_at = store[i].created_at]_vars

\* the text holds no JSON document even with its fence markers and its
\* whitespace taken away
MalformedJson(text) ==
    SelectSeq(text, LAMBDA t : t \notin {"FENCE", "json", "WS"}) # <<"DOC">>

InterpretationFailed(resp) ==
    \/ resp.outcome \in {"throw", "non2xx", "badbody"}
    \/ resp.outcome = "text" /\ MalformedJson(resp.text)

\* C5: when the interpretation fails (transport error, malformed JSON) the
\* reconciliation request changes no stored item, inserts none, and is answered
\* without error and with an empty list of applied changes.
C5_FailedInterpretationIsNoOp ==
    [][\A p \in Procs :
        ( /\ req[p].pc = "claude"
          /\ req[p].endpoint \in ReconcileEndpoints
          /\ req'[p].pc # "claude"
          /\ InterpretationFailed(req'[p].resp) ) =>
            /\ store' = store
            /\ req'[p].pc = "done"
            /\ req'[p].status = 200
            /\ req'[p].updatesApplied = <<>>]_vars

C5_Witness ==
    \E p \in Procs :
        /\ req[p].pc = "done"
        /\ req[p].endpoint \in {"api", "sms"}
        /\ req[p].resp.outcome \in {"throw", "text"}
        /\ InterpretationFailed(req[p].resp)
        /\ req[p].status = 200

\* C8: within one request the phases run in a fixed order: a statement of the
\* newItems loop is issued only when every update entry has been passed and no
\* removal has run, a statement of the removeItems loop only when every update
\* and every new-item entry has been passed.
C8_PhaseOrder ==
    \A p \in Procs :
        LET rq == req[p]
            cs == rq.claudeResponse
        IN  /\ (rq.pc = "updates" => rq.n = 1 /\ rq.r = 1)
            /\ (rq.pc = "newItems" \/ rq.n > 1) =>
                   rq.u > Len(cs.updates)
            /\ (rq.pc = "newItems" => rq.r = 1)
            /\ (rq.pc = "removeItems" \/ rq.r > 1) =>
                   rq.u > Len(cs.updates) /\ rq.n > Len(cs.newItems)

C8_Witness ==
    \E p \in Procs :
        /\ req[p].pc = "done"
        /\ req[p].status = 200
        /\ Len(req[p].updatesApplied) = 3
        /\ req[p].updatesApplied[1].op = "Updated"
        /\ req[p].updatesApplied[2].op = "Added"
        /\ req[p].updatesApplied[3].op = "Removed"

\* C9: when the statement of a removal entry runs, every item the newItems
\* phase of the same request inserted and whose name matches the entry's token
\* (case-insensitive containment) ends with status deleted and is in no
\* active-items query from then on.
C9_RemovalReachesInsertedItem ==
    [][\A p \in Procs :
        RemoveCompletes(p, TRUE) =>
            LET token == Val(req[p].claudeResponse.removeItems[req[p].r].itemName)
            IN  \A id \in req[p].inserted :
                    ILikeContains(store[id].name, token) =>
                        /\ store'[id].status = "deleted"
                        /\ \A k \in 1..Len(SelectActive(store')) :
                               SelectActive(store')[k].id # id]_vars

C9_Witness ==
    \E p \in Procs :
        /\ req[p].pc = "done"
        /\ req[p].r > 1
        /\ \E id \in req[p].inserted :
               /\ store[id].status = "deleted"
               /\ store[id].name = OatMilk
               /\ req[p].updatesApplied[Len(req[p].updatesApplied)] =
                      Line("Removed", Some(milk))

\* C10: the entries of a change-set are processed independently: a request
\* that has been answered has passed every entry of its change-set, whatever
\* failed or matched nothing on the way.
C10_EveryEntryProcessed ==
    \A p \in Procs :
        (req[p].pc = "done" /\ req[p].endpoint \in ReconcileEndpoints) =>
            /\ req[p].u > Len(req[p].claudeResponse.updates)
            /\ req[p].n > Len(req[p].claudeResponse.newItems)
            /\ req[p].r > Len(req[p].claudeResponse.removeItems)

\* C11: an update entry whose target is not resolved (its id is that of no
\* stored item) changes no item, is not answered as an error and adds no line
\* to the list of applied changes.
C11_UnresolvedUpdateIsSkipped ==
    [][\A p \in Procs :
        UpdateCompletes(p, TRUE) =>
            LET update == req[p].claudeResponse.updates[req[p].u]
                id     == Val(UpdateTarget(req[p].endpoint, update, req[p].items))
            IN  Len(RowsWithId(store, id)) = 0 =>
                    /\ store' = store
                    /\ req'[p].status # 500
                    /\ req'[p].updatesApplied = req[p].updatesApplied]_vars

\* C12: a removal entry that matches no item changes no item, is not answered
\* as an error and adds no "Removed" line to the list of applied changes.
C12_UnmatchedRemovalIsSkipped ==
    [][\A p \in Procs :
        RemoveCompletes(p, TRUE) =>
            LET token == Val(req[p].claudeResponse.removeItems[req[p].r].itemName)
            IN  Len(RowsILike(store, token)) = 0 =>
                    /\ store' = store
                    /\ req'[p].status # 500
                    /\ req'[p].updatesApplied = req[p].updatesApplied]_vars

\* C13: a new-item entry that omits a field is inserted with the defaults:
\* category "House" for no category, a duration of 30 for no duration and
\* today as last purchase for no date.
C13_NewItemDefaults ==
    [][\A p \in Procs :
        InsertCompletes(p, TRUE) =>
            LET newItem == req[p].claudeResponse.newItems[req[p].n]
            IN  /\ Len(store') = Len(store) + 1
                /\ store'[Len(store')].category =
                       (IF IsNull(newItem.category) THEN "House"
                        ELSE Val(newItem.category))
                /\ store'[Len(store')].estimated_duration_days =
                       (IF IsNull(newItem.durationDays) THEN Some(30)
                        ELSE newItem.durationDays)
                /\ store'[Len(store')].last_purchased =
                       (IF IsNull(newItem.lastPurchased) THEN Some(DayOf(now))
                        ELSE newItem.lastPurchased)]_vars

\* C19: when a statement of a reconciliation fails, nothing the earlier
\* entries changed is undone, and the request is answered with an error: a
\* request whose change-set holds a new item that the table refuses (no name
\* or no category) is not answered 200.
C19_FailureIsAnErrorResponse ==
    [][\A p \in Procs :
        /\ ( \/ UpdateCompletes(p, FALSE)
             \/ InsertCompletes(p, FALSE)
             \/ RemoveCompletes(p, FALSE) ) => store' = store
        /\ ( /\ req[p].pc # "done" /\ req'[p].pc = "done"
             /\ req'[p].endpoint \in ReconcileEndpoints
             /\ \E k \in 1..Len(req'[p].claudeResponse.newItems) :
                    ViolatesNotNull(req'[p].claudeResponse.newItems[k].itemName,
                                    req'[p].claudeResponse.newItems[k].category) )
           => req'[p].status = 500]_vars

(***************************************************************************)
(* SpecItems: the item routes and reconciliations, side by side.           *)
(***************************************************************************)
ItemsTables ==
    { << Row(1, Milk, "Food", Some(Day0 - 10), Some(14), "active", 0),
         Row(2, OatMilk, "Food", Some(Day0 - 3), Some(30), "deleted", 0) >> }

ItemsEnvs == { [ANTHROPIC_API_KEY |-> TRUE, TWILIO_PHONE_NUMBER |-> FALSE] }

ItemsResponses ==
    { TextResponse(<<"DOC">>, Doc(<<ULpOnly>>, <<NOatMilk>>, <<RMilk>>)),
      TextResponse(<<"JUNK">>, NoDoc) }

InitItems == InitWith(ItemsTables, ItemsEnvs, {Day0 * TicksPerDay})

NextItems ==
    \/ \E body \in PostBodies : PostItem(body)
    \/ \E id \in 1..MaxRows, body \in PutBodies : PutItem(id, body)
    \/ \E id \in 1..MaxRows : DeleteItem(id)
    \/ \E p \in Procs, e \in {"api", "sms"}, ok \in BOOLEAN : Receive(p, e, ok)
    \/ \E p \in Procs, resp \in ItemsResponses : ClaudeResponds(p, resp)
    \/ \E p \in Procs, ok \in BOOLEAN : UpdateCompletes(p, ok)
    \/ \E p \in Procs, ok \in BOOLEAN : InsertCompletes(p, ok)
    \/ \E p \in Procs, ok \in BOOLEAN : RemoveCompletes(p, ok)
    \/ \E p \in Procs : Reset(p)

SpecItems == InitItems /\ [][NextItems]_vars

\* C7: an item whose status is deleted is still in storage after any step
\* (a create, an edit, a delete, a statement of a reconciliation), under the
\* same id, and its status is still deleted; no step removes a row.
C7_DeletedIsPermanent ==
    [][ /\ Len(store') >= Len(store)
        /\ \A i \in 1..Len(store) :
               /\ store'[i].id = store[i].id
               /\ store[i].status = "deleted" => store'[i].status = "deleted" ]_vars

\* item 1, deleted after the start, has since been edited by PUT, a
\* reconciliation has updated the deleted item 2 and inserted item 3
C7_Witness ==
    /\ Len(store) = 3
    /\ store[1].status = "deleted" /\ store[1].name = Bread
    /\ store[2].status = "deleted" /\ store[2].last_purchased = Some(Day0)
    /\ store[3].status = "deleted" /\ store[3].name = OatMilk

\* C20: every stored item has a duration, and it is greater than 0: a write
\* that carries a zero, negative or missing duration is refused.
C20_DurationIsPositive ==
    \A i \in 1..Len(store) :
        /\ ~IsNull(store[i].estimated_duration_days)
        /\ Val(store[i].estimated_duration_days) > 0

(***************************************************************************)
(* SpecQueries: the queries for active items (the listing, the reminder    *)
(* pipeline, the reconciliation's inventory) beside deletions.  Once the   *)
(* e-mail is composed, its sending and its logging succeed here; their     *)
(* failures are part of SpecDuration.                                      *)
(***************************************************************************)
QueriesTables ==
    { << Row(1, Milk, "Food", Some(Day0 - 10), Some(14), "active", 0),
         Row(2, OatMilk, "Food", Some(Day0 - 3), Some(30), "deleted", 0),
         Row(3, Bread, "Food", Some(Day0 - 10), Some(14), "active", 0) >> }

QueriesResponses ==
    { TextResponse(<<"DOC">>, Doc(<<>>, <<>>, <<RMilk>>)) }

InitQueries == InitWith(QueriesTables, ItemsEnvs, {Day0 * TicksPerDay})

NextQueries ==
    \/ \E id \in 1..MaxRows : DeleteItem(id)
    \/ UiFetch
    \/ \E p \in Procs, ok \in BOOLEAN : Receive(p, "api", ok)
    \/ \E p \in Procs, resp \in QueriesResponses : ClaudeResponds(p, resp)
    \/ \E p \in Procs, ok \in BOOLEAN : RemoveCompletes(p, ok)
    \/ \E p \in Procs : Reset(p)
    \/ \E t \in Triggers, ok \in BOOLEAN : ReminderStart(t, ok)
    \/ \E t \in Triggers : SendCompletes(t, TRUE)
    \/ \E t \in Triggers : LogCompletes(t, TRUE)
    \/ \E t \in Triggers : ReminderReset(t)

SpecQueries == InitQueries /\ [][NextQueries]_vars

\* the rows of a query's answer are rows of the table whose status is active
OnlyActive(rows) ==
    \A k \in 1..Len(rows) :
        /\ rows[k].id \in 1..Len(store)
        /\ store[rows[k].id].status = "active"
        /\ store[rows[k].id].name = rows[k].name

\* C6: a soft-deleted item (deleted by DELETE /api/items/:id or by a removal
\* of a reconciliation) is in no answer of the active-items listing, in no
\* reminder composed by the manual or the scheduled trigger, and not in the
\* inventory handed to the interpreter: each of these holds rows that are
\* active in the table when the query answers.
C6_DeletedNeverQueried ==
    [][ /\ ui' # ui => OnlyActive(ui'.items)
        /\ \A t \in Triggers :
               (rem[t].pc = "idle" /\ rem'[t].pc = "send") =>
                   /\ OnlyActive(rem'[t].lowItems)
                   /\ \A g \in 1..Len(Val(rem'[t].emailContent)) :
                          \A k \in 1..Len(Val(rem'[t].emailContent)[g].names) :
                              \E i \in 1..Len(store) :
                                  /\ store[i].status = "active"
                                  /\ store[i].name = Val(rem'[t].emailContent)[g].names[k]
        /\ \A p \in Procs :
               (req[p].pc = "idle" /\ req'[p].pc = "claude") =>
                   OnlyActive(req'[p].items) ]_vars

\* Milk is deleted; since then the listing, the scheduled reminder and a
\* reconciliation have each queried the table and got Bread alone
C6_Witness ==
    /\ store[1].status = "deleted"
    /\ NamesOf(ui.items) = <<Bread>>
    /\ rem["automatic"].pc = "send" /\ NamesOf(rem["automatic"].lowItems) = <<Bread>>
    /\ req[1].pc = "claude" /\ NamesOf(req[1].items) = <<Bread>>

(***************************************************************************)
(* SpecDuration: the duration model, on the client and in the reminder     *)
(* pipeline, over items around the boundaries of the window, as time       *)
(* passes.                                                                 *)
(***************************************************************************)
June15 == DateParse(<<2025, 6, 15>>)

DurationDates == { NULL, Some(Day0 - 10), Some(Day0 - 9), Some(June15) }
Durations == { NULL, Some(9), Some(10), Some(14), Some(17), Some(18), Some(90) }

DurationTables ==
    { << Row(1, Milk, "Food", lp, dur, "active", 0) >> :
          lp \in DurationDates, dur \in Durations }
    \cup
    { << Row(1, Bread, "Food", Some(Day0 - 10), Some(9), "active", 0),
         Row(2, Eggs, "Food", Some(Day0 - 10), Some(17), "active", 0),
         Row(3, Milk, "Food", Some(Day0 - 10), Some(18), "active", 0) >>,
      << Row(1, DogFood, "Pet", Some(June15), Some(90), "active", 0),
         Row(2, Milk, "Food", Some(Day0 - 10), Some(14), "active", 0),
         Row(3, Eggs, "Food", Some(Day0 - 10), Some(10), "active", 0) >> }

InitDuration == InitWith(DurationTables, ItemsEnvs, {Day0 * TicksPerDay})

NextDuration ==
    \/ UiFetch
    \/ UiRender
    \/ Tick
    \/ \E t \in Triggers, ok \in BOOLEAN : ReminderStart(t, ok)
    \/ \E t \in Triggers, ok \in BOOLEAN : SendCompletes(t, ok)
    \/ \E t \in Triggers, ok \in BOOLEAN : LogCompletes(t, ok)
    \/ \E t \in Triggers : ReminderReset(t)

SpecDuration == InitDuration /\ [][NextDuration]_vars

\* the client's last render lists the item called name under this badge
HasBadge(name, days, upcoming, overdue) ==
    \E k \in 1..Len(ui.items) :
        /\ ui.items[k].name = name
        /\ ui.badges[k] = [daysUntil |-> days, isUpcoming |-> upcoming,
                           isOverdue |-> overdue]

\* C1: at every reference time the running-low filter keeps an item exactly
\* when 0 <= daysUntilNeeded <= 7, on the client (the upcoming list against
\* the days the item's badge shows) and in the reminder pipeline; so 7 is
\* kept, 8 and -1 are not, and no item is both running low and overdue.
C1_RunningLowWindow ==
    [][ /\ ui' # ui =>
               \A k \in 1..Len(ui'.items) :
                   /\ ui'.badges[k].isUpcoming <=>
                          (0 <= ui'.badges[k].daysUntil /\ ui'.badges[k].daysUntil <= 7)
                   /\ ~(ui'.badges[k].isUpcoming /\ ui'.badges[k].daysUntil < 0)
        /\ \A t \in Triggers :
               (rem[t].pc = "idle" /\ rem'[t].pc # "idle" /\ rem'[t].status # 500) =>
                   \A i \in 1..Len(store) :
                       (\E k \in 1..Len(rem'[t].lowItems) : rem'[t].lowItems[k] = store[i])
                       <=> ( /\ store[i].status = "active"
                             /\ 0 <= getDaysUntilNeeded(store[i], now)
                             /\ getDaysUntilNeeded(store[i], now) <= 7 ) ]_vars

\* one render and one reminder over items at -1, 7 and 8 days
C1_Witness ==
    /\ Len(ui.items) = 3
    /\ HasBadge(Bread, -1, FALSE, TRUE)
    /\ HasBadge(Eggs, 7, TRUE, FALSE)
    /\ HasBadge(Milk, 8, FALSE, FALSE)
    /\ rem["manual"].pc = "send" /\ NamesOf(rem["manual"].lowItems) = <<Eggs>>

\* C2: the days until an item is needed are the quotient of (last purchase
\* + duration - reference time) by one day, rounded up, negative when
\* overdue: 4 for a purchase 10 days before the reference date with a
\* duration of 14, and 3 (hence running low) on 2025-09-10 for a purchase
\* on 2025-06-15 with a duration of 90.
C2_DaysUntilNeeded ==
    [][ /\ ui' # ui =>
               \A k \in 1..Len(ui'.items) :
                   LET item == ui'.items[k]
                       lp   == item.last_purchased
                       dur  == item.estimated_duration_days
                       d    == ui'.badges[k].daysUntil
                       diff == (Val(lp) + Val(dur)) * TicksPerDay - now
                   IN  (~IsNull(lp) /\ ~IsNull(dur)) =>
                           /\ d * TicksPerDay >= diff
                           /\ (d - 1) * TicksPerDay < diff
                           /\ ui'.badges[k].isOverdue <=> d < 0
                           /\ (lp = Some(DayOf(now) - 10) /\ dur = Some(14)) => d = 4
                           /\ ( /\ lp = Some(DateParse(<<2025, 6, 15>>))
                                /\ dur = Some(90)
                                /\ DayOf(now) = DateParse(<<2025, 9, 10>>) )
                              => (d = 3 /\ ui'.badges[k].isUpcoming)
        /\ \A t \in Triggers :
               ( /\ rem[t].pc = "idle" /\ rem'[t].pc # "idle" /\ rem'[t].status # 500
                 /\ DayOf(now) = DateParse(<<2025, 9, 10>>) ) =>
                   \A i \in 1..Len(store) :
                       ( /\ store[i].status = "active"
                         /\ store[i].last_purchased = Some(DateParse(<<2025, 6, 15>>))
                         /\ store[i].estimated_duration_days = Some(90) )
                       => \E k \in 1..Len(rem'[t].lowItems) :
                              rem'[t].lowItems[k] = store[i] ]_vars

\* a render and a scheduled reminder in the course of 2025-09-10: Dog food
\* (2025-06-15, 90 days) is at 3 days, Milk (10 days ago, 14 days) at 4 and
\* Eggs, which ran out at midnight, at 0
C2_Witness ==
    /\ Len(ui.items) = 3
    /\ now % TicksPerDay # 0
    /\ DayOf(now) = Day0
    /\ ui = Render(SelectActiveOrdered(store), now)
    /\ HasBadge(DogFood, 3, TRUE, FALSE)
    /\ HasBadge(Milk, 4, TRUE, FALSE)
    /\ HasBadge(Eggs, 0, TRUE, FALSE)
    /\ rem["automatic"].pc = "send"
    /\ NamesOf(rem["automatic"].lowItems) = <<DogFood, Milk, Eggs>>

\* C15: when no active item is running low the composer returns null, and
\* neither trigger sends an e-mail or appends to email_logs: the pipeline
\* ends at once, and an e-mail on its way is one composed for low items.
C15_NothingLowNothingSent ==
    [][ /\ \A t \in Triggers :
               ( /\ rem[t].pc = "idle" /\ rem'[t] # rem[t] /\ rem'[t].status # 500
                 /\ Len(getItemsRunningLow(SelectActive(store), now)) = 0 ) =>
                   /\ generateReminderEmail(<<>>) = NULL
                   /\ rem'[t].pc = "done"
                   /\ outbox' = outbox
                   /\ email_logs' = email_logs
        /\ \A t \in Triggers :
               rem'[t].pc \in {"send", "log"} => Len(rem'[t].lowItems) > 0
        /\ outbox' # outbox =>
               \E t \in Triggers : rem[t].pc = "send" /\ Len(rem[t].lowItems) > 0
        /\ email_logs' # email_logs =>
               \E t \in Triggers : rem[t].pc = "log" /\ Len(rem[t].lowItems) > 0 ]_vars

\* both triggers have run over an active item that is not running low and
\* have ended without an e-mail and without a log entry
C15_Witness ==
    /\ Len(SelectActive(store)) = 1
    /\ Len(getItemsRunningLow(SelectActive(store), Day0 * TicksPerDay)) = 0
    /\ Len(getItemsRunningLow(SelectActive(store), now)) = 0
    /\ rem["manual"].pc = "done" /\ rem["manual"].status = 200
    /\ rem["automatic"].pc = "done" /\ rem["automatic"].status = 200
    /\ outbox = <<>>
    /\ email_logs = <<>>

\* the orderings of a list
Orderings(items) ==
    { [i \in 1..Len(items) |-> items[f[i]]] :
        f \in { g \in [1..Len(items) -> 1..Len(items)] :
                  \A i, j \in 1..Len(items) : g[i] = g[j] => i = j } }

\* the categories of a composed e-mail, line by line
CategoryLines(emailContent) ==
    [g \in 1..Len(emailContent) |-> emailContent[g].category]

\* the names a composed e-mail lists under a category
NamesUnder(emailContent, category) ==
    UNION { { emailContent[g].names[k] : k \in 1..Len(emailContent[g].names) } :
              g \in { h \in 1..Len(emailContent) :
                        emailContent[h].category = category } }

\* C16: the e-mail composed for the low items and the e-mail composed for any
\* other ordering of them list the same names under each category and have
\* their category lines in the same order.
C16_CategoryOrderIsFixed ==
    \A t \in Triggers :
        rem[t].pc = "send" =>
            \A other \in Orderings(rem[t].lowItems) :
                LET a == Val(rem[t].emailContent)
                    b == Val(generateReminderEmail(other))
                IN  /\ CategoryLines(a) = CategoryLines(b)
                    /\ \A c \in { a[g].category : g \in 1..Len(a) } :
                           NamesUnder(a, c) = NamesUnder(b, c)

(***************************************************************************)
(* SpecRecent: the client's renders over items purchased around the        *)
(* boundaries of the window of recent purchases, as time passes.           *)
(***************************************************************************)
RecentDates ==
    { NULL, Some(Day0 + 2), Some(Day0 + 1), Some(Day0), Some(Day0 - 1),
      Some(Day0 - 6), Some(Day0 - 7), Some(Day0 - 8) }

RecentTables ==
    { << Row(1, Milk, "Food", lp, dur, "active", 0) >> :
          lp \in RecentDates, dur \in {Some(14), Some(30)} }
    \cup
    { << Row(1, Bread, "Food", Some(Day0), Some(7), "active", 0),
         Row(2, Eggs, "Food", Some(Day0 - 7), Some(14), "active", 0),
         Row(3, Milk, "Food", Some(Day0 - 8), Some(14), "active", 0) >> }

InitRecent == InitWith(RecentTables, ItemsEnvs, {Day0 * TicksPerDay})

NextRecent ==
    \/ UiFetch
    \/ UiRender
    \/ Tick

SpecRecent == InitRecent /\ [][NextRecent]_vars

\* C17: at every render, whatever the time of day, an item is among the
\* recently purchased exactly when the number of whole calendar days from
\* its last purchase to the day of the render is between 0 and 7.
C17_RecentlyPurchased ==
    [][ ui' # ui =>
            \A k \in 1..Len(ui'.items) :
                ~IsNull(ui'.items[k].last_purchased) =>
                    ( (\E j \in 1..Len(ui'.recentItems) :
                           ui'.recentItems[j] = ui'.items[k])
                      <=> ( /\ 0 <= DayOf(now) - Val(ui'.items[k].last_purchased)
                            /\ DayOf(now) - Val(ui'.items[k].last_purchased) <= 7 ) ) ]_vars

(***************************************************************************)
(* SpecInterp: the interpreter, called through POST /api/debug-claude,     *)
(* over every outcome of the text-generation call and every text of up to  *)
(* MaxTextLen tokens.                                                      *)
(***************************************************************************)
Texts == UNION { [1..k -> Tokens] : k \in 0..MaxTextLen }

\* the values a "DOC" token may denote: a change-set, and the JSON value null
InterpDocs == { Doc(<<UFull>>, <<>>, <<RMilk>>), NoDoc }

InterpResponses ==
    FailedResponses
    \cup { TextResponse(text, doc) : text \in Texts, doc \in InterpDocs }

InitInterp == InitWith(InitTables, Envs, {Day0 * TicksPerDay})

NextInterp ==
    \/ \E p \in Procs, ok \in BOOLEAN : Receive(p, "debug", ok)
    \/ \E p \in Procs, resp \in InterpResponses : ClaudeResponds(p, resp)
    \/ \E p \in Procs : Reset(p)

SpecInterp == InitInterp /\ [][NextInterp]_vars

\* C4: processWithClaude never raises to its caller (the debug endpoint
\* answers 200 with what it returned), and when the text-generation call
\* throws, answers with a status outside 2xx, or returns a text that is not
\* a JSON document, what it returned is exactly the empty change-set.
C4_InterpreterFailsOpen ==
    [][\A p \in Procs :
        (req[p].pc = "claude" /\ req'[p].pc # "claude") =>
            /\ req'[p].pc = "done"
            /\ req'[p].status = 200
            /\ InterpretationFailed(req'[p].resp) =>
                   req'[p].claudeResponse = EmptyChangeSet]_vars

\* the call returned a fenced text that is no JSON document; the debug
\* endpoint has answered 200 with the empty change-set
C4_Witness ==
    /\ req[1].endpoint = "debug"
    /\ req[1].pc = "done"
    /\ req[1].status = 200
    /\ req[1].resp.outcome = "text"
    /\ req[1].resp.text = <<"FENCE", "json", "JUNK", "FENCE">>
    /\ req[1].claudeResponse = EmptyChangeSet

(***************************************************************************)
(* SpecInsert: reconciliations that insert, on a table with no active item *)
(* and on one with an active item.                                         *)
(***************************************************************************)
NBread7 == N(Some(Bread), Some("Food"), Some(Day0), Some(7))

InsertTables ==
    { << Row(1, Milk, "Food", Some(Day0 - 10), Some(14), "deleted", 0) >>,
      << Row(1, Milk, "Food", Some(Day0 - 10), Some(14), "active", 0) >> }

InsertResponses ==
    { TextResponse(<<"DOC">>, d) :
        d \in { Doc(<<>>, <<NBread7>>, <<>>),
                Doc(<<UDurOnly>>, <<NBread7>>, <<>>),
                Doc(<<>>, <<NBare, NOatMilk>>, <<>>) } }

InitInsert == InitWith(InsertTables, Envs, {Day0 * TicksPerDay})

NextInsert ==
    \/ \E p \in Procs, e \in ReconcileEndpoints, ok \in BOOLEAN : Receive(p, e, ok)
    \/ \E p \in Procs, resp \in InsertResponses : ClaudeResponds(p, resp)
    \/ \E p \in Procs, ok \in BOOLEAN : UpdateCompletes(p, ok)
    \/ \E p \in Procs, ok \in BOOLEAN : InsertCompletes(p, ok)
    \/ \E p \in Procs, ok \in BOOLEAN : ConfirmCompletes(p, ok)
    \/ \E p \in Procs : Reset(p)

SpecInsert == InitInsert /\ [][NextInsert]_vars

\* C14: the INSERT of a new-item entry, when it completes, adds exactly one
\* row, under an id no row had, with status active and the entry's name,
\* category, last purchase and duration, leaves every other row as it was and
\* adds one "Added" line; with no active item before and Bread (Food, 7) as
\* the only entry, there is then one active item and one line.
C14_OneActiveItemPerEntry ==
    [][\A p \in Procs :
        ( /\ InsertCompletes(p, TRUE)
          /\ ~ViolatesNotNull(req[p].claudeResponse.newItems[req[p].n].itemName,
                              req[p].claudeResponse.newItems[req[p].n].category) ) =>
            LET newItem == req[p].claudeResponse.newItems[req[p].n]
                row     == store'[Len(store')]
            IN  /\ Len(store') = Len(store) + 1
                /\ SubSeq(store', 1, Len(store)) = store
                /\ \A i \in 1..Len(store) : store[i].id # row.id
                /\ row.status = "active"
                /\ row.name = Val(newItem.itemName)
                /\ row.category = Val(newItem.category)
                /\ row.last_purchased = newItem.lastPurchased
                /\ row.estimated_duration_days = newItem.durationDays
                /\ req'[p].updatesApplied =
                       Append(req[p].updatesApplied, Line("Added", newItem.itemName))
                /\ ( /\ Len(SelectActive(store)) = 0
                     /\ req[p].claudeResponse =
                            [updates |-> <<>>, newItems |-> <<NBread7>>,
                             removeItems |-> <<>>] )
                   => /\ Len(SelectActive(store')) = 1
                      /\ SelectActive(store')[1].name = Bread
                      /\ Len(req'[p].updatesApplied) = 1]_vars

\* the request found no active item, inserted Bread and answered with one line
C14_Witness ==
    /\ req[1].pc = "done" /\ req[1].status = 200
    /\ req[1].items = <<>>
    /\ req[1].claudeResponse.newItems = <<NBread7>>
    /\ req[1].updatesApplied = <<Line("Added", Some(Bread))>>
    /\ Len(store) = 2
    /\ store[1].status = "deleted"
    /\ store[2] = Row(2, Bread, "Food", Some(Day0), Some(7), "active", now)

(***************************************************************************)
(* SpecFallback: requests with their utterances, with and without an API   *)
(* key configured.                                                         *)
(***************************************************************************)
Good == <<"g", "o", "o", "d">>

\* utterances, word by word: "milk ordered", "ordered", "Eggs ordered",
\* "milk good", and a body without an utterance
Utterances ==
    { NULL, Some(<<milk, Ordered>>), Some(<<Ordered>>), Some(<<Eggs, Ordered>>),
      Some(<<milk, Good>>) }

FallbackResponses ==
    { TextResponse(<<"DOC">>, Doc(<<UFull>>, <<>>, <<>>)),
      TextResponse(<<"JUNK">>, NoDoc) }

InitFallback == InitWith(InitTables, Envs, {Day0 * TicksPerDay})

NextFallback ==
    \/ \E p \in Procs, e \in {"api", "sms", "debug"}, ok \in BOOLEAN,
          userInput \in Utterances : ReceiveInput(p, e, ok, userInput)
    \/ \E p \in Procs, resp \in FallbackResponses : ClaudeResponds(p, resp)
    \/ \E p \in Procs, ok \in BOOLEAN : UpdateCompletes(p, ok)
    \/ \E p \in Procs, ok \in BOOLEAN : ConfirmCompletes(p, ok)
    \/ \E p \in Procs : Reset(p)
    \/ \E id \in 1..MaxRows : DeleteItem(id)

SpecFallback == InitFallback /\ [][NextFallback]_vars

\* the positions of an utterance's words before its first "ordered" that
\* match the name of one of the items (case-insensitive containment)
MatchesBeforeOrdered(words, items) ==
    { j \in 1..Len(words) :
        /\ \E i \in (j + 1)..Len(words) :
               /\ words[i] = Ordered
               /\ \A h \in 1..(i - 1) : words[h] # Ordered
        /\ \E k \in 1..Len(items) : ILikeContains(items[k].name, words[j]) }

\* C18: with no API key configured, an utterance with the word "ordered" and,
\* before it, a word matching the name of a current item yields a change-set
\* of exactly one update, marking that item as purchased today; any other
\* utterance yields the empty change-set.
C18_OrderedFallback ==
    [][\A p \in Procs :
        ( /\ req[p].pc = "idle" /\ req'[p].pc # "idle"
          /\ ~env.ANTHROPIC_API_KEY
          /\ req'[p].status # 500 ) =>
            LET words == IF IsNull(req'[p].userInput) THEN <<>>
                         ELSE Val(req'[p].userInput)
                items == req'[p].items
                found == MatchesBeforeOrdered(words, items)
                cs    == req'[p].claudeResponse
            IN  IF found = {} THEN cs = EmptyChangeSet
                ELSE /\ Len(cs.updates) = 1
                     /\ cs.newItems = <<>>
                     /\ cs.removeItems = <<>>
                     /\ cs.updates[1].newLastPurchased = Some(DayOf(now))
                     /\ \E k \in 1..Len(items) :
                            /\ ILikeContains(items[k].name,
                                   words[CHOOSE j \in found : \A h \in found : h <= j])
                            /\ cs.updates[1].itemId = Some(items[k].id)]_vars

(***************************************************************************)
(* SpecUnknown: the duration model over items whose duration is 0 or       *)
(* missing, purchased before, on and after the day of the clock.           *)
(***************************************************************************)
UnknownDates == { Some(Day0 - 10), Some(Day0 - 1), Some(Day0), Some(Day0 + 1), Some(Day0 + 9) }
UnknownDurations == { NULL, Some(0) }

UnknownTables ==
    { << Row(1, Milk, "Food", lp, dur, "active", 0) >> :
          lp \in UnknownDates, dur \in UnknownDurations }
    \cup
    { << Row(1, Bread, "Food", Some(Day0 - 10), Some(14), "active", 0),
         Row(2, Eggs, "Food", Some(Day0 - 10), Some(0), "active", 0),
         Row(3, Milk, "Food", Some(Day0), NULL, "active", 0) >> }

InitUnknown == InitWith(UnknownTables, ItemsEnvs, {Day0 * TicksPerDay})

NextUnknown ==
    \/ UiFetch
    \/ UiRender
    \/ Tick
    \/ \E t \in Triggers, ok \in BOOLEAN : ReminderStart(t, ok)
    \/ \E t \in Triggers, ok \in BOOLEAN : SendCompletes(t, ok)
    \/ \E t \in Triggers, ok \in BOOLEAN : LogCompletes(t, ok)
    \/ \E t \in Triggers : ReminderReset(t)

SpecUnknown == InitUnknown /\ [][NextUnknown]_vars

\* the item's duration is 0 or missing
DurationUnknown(item) ==
    IsNull(item.estimated_duration_days) \/ Val(item.estimated_duration_days) = 0

\* C21: an item whose duration is 0 or missing is, at every reference time,
\* neither running low nor overdue: no render gives it the Upcoming or the
\* Overdue badge or lists it among the upcoming items, and no reminder
\* pipeline has it among its low items.
C21_UnknownDurationIsUnclassified ==
    [][ /\ ui' # ui =>
               /\ \A k \in 1..Len(ui'.items) :
                      DurationUnknown(ui'.items[k]) =>
                          /\ ~ui'.badges[k].isUpcoming
                          /\ ~ui'.badges[k].isOverdue
               /\ \A j \in 1..Len(ui'.upcomingItems) :
                      ~DurationUnknown(ui'.upcomingItems[j])
        /\ \A t \in Triggers :
               (rem[t].pc = "idle" /\ rem'[t].pc # "idle") =>
                   \A j \in 1..Len(rem'[t].lowItems) :
                       ~DurationUnknown(rem'[t].lowItems[j]) ]_vars

(***************************************************************************)
(* SpecReminders: the two triggers of the reminder pipeline, run side by   *)
(* side over a table with items running low, with items deleted between    *)
(* their steps; every query, send and log statement may fail.              *)
(***************************************************************************)
RemindersTables ==
    { << Row(1, Milk, "Food", Some(Day0 - 10), Some(14), "active", 0),
         Row(2, DogFood, "Pet", Some(Day0 - 10), Some(12), "active", 0),
         Row(3, Bread, "Food", Some(Day0 - 10), Some(30), "active", 0) >> }

InitReminders == InitWith(RemindersTables, ItemsEnvs, {Day0 * TicksPerDay})

NextReminders ==
    \/ \E t \in Triggers, ok \in BOOLEAN : ReminderStart(t, ok)
    \/ \E t \in Triggers, ok \in BOOLEAN : SendCompletes(t, ok)
    \/ \E t \in Triggers, ok \in BOOLEAN : LogCompletes(t, ok)
    \/ \E t \in Triggers : ReminderReset(t)
    \/ \E id \in 1..MaxRows : DeleteItem(id)

SpecReminders == InitReminders /\ [][NextReminders]_vars

\* C22: no step of the manual trigger or of the scheduled check changes the
\* items table, whether the send succeeds or fails; a failed send ends the
\* pipeline as a failure (500, or the logged error of the scheduled check)
\* with no e-mail accepted and no log entry.
C22_RemindersLeaveItemsAlone ==
    [][\A t \in Triggers :
        /\ rem'[t] # rem[t] => store' = store
        /\ SendCompletes(t, FALSE) =>
               /\ store' = store
               /\ rem'[t].pc = "done"
               /\ rem'[t].status = 500
               /\ outbox' = outbox
               /\ email_logs' = email_logs ]_vars

\* the manual trigger's send has failed and the scheduled check has sent and
\* logged; the table is as it started
C22_Witness ==
    /\ rem["manual"].pc = "done" /\ rem["manual"].status = 500
    /\ Len(rem["manual"].lowItems) = 2
    /\ rem["automatic"].pc = "done" /\ rem["automatic"].status = 200
    /\ Len(email_logs) = 1 /\ email_logs[1].type = "automatic"
    /\ store \in RemindersTables

(***************************************************************************)
(* The time of day of the reference date (checked under SpecDuration).     *)
(***************************************************************************)
\* the whole days from the calendar day of an instant to the day an item is
\* needed again
WholeDaysUntilNeeded(item, t) ==
    ToNumber(item.last_purchased) + ToNumber(item.estimated_duration_days) - DayOf(t)

\* C23: the days until needed, and with them the running-low classification,
\* depend on the calendar day of the reference instant alone, not on its time
\* of day: at every instant of a day a render shows the whole days from that
\* day to the day of need, and the client's upcoming list and the pipeline's
\* low items hold the items for which that number is between 0 and 7.
C23_TimeOfDayIsIrrelevant ==
    [][ /\ ui' # ui =>
               \A k \in 1..Len(ui'.items) :
                   /\ ui'.badges[k].daysUntil = WholeDaysUntilNeeded(ui'.items[k], now)
                   /\ ui'.badges[k].isUpcoming <=>
                          ( /\ 0 <= WholeDaysUntilNeeded(ui'.items[k], now)
                            /\ WholeDaysUntilNeeded(ui'.items[k], now) <= 7 )
        /\ \A t \in Triggers :
               (rem[t].pc = "idle" /\ rem'[t].pc # "idle" /\ rem'[t].status # 500) =>
                   rem'[t].lowItems =
                       SelectSeq(SelectActive(store), LAMBDA item :
                           /\ 0 <= WholeDaysUntilNeeded(item, now)
                           /\ WholeDaysUntilNeeded(item, now) <= 7) ]_vars

\* in the middle of the day: Milk, needed in 7 days, is rendered at 7 days
\* and Upcoming, and the scheduled check has it as its low item
C23_Witness ==
    /\ now % TicksPerDay # 0
    /\ Len(store) = 1
    /\ WholeDaysUntilNeeded(store[1], now) = 7
    /\ ui = Render(SelectActiveOrdered(store), now)
    /\ HasBadge(Milk, 7, TRUE, FALSE)
    /\ rem["automatic"].pc = "send"
    /\ rem["automatic"].lowItems = <<store[1]>>

(***************************************************************************)
(* The target of an update entry (checked under Spec).                     *)
(***************************************************************************)
\* the item an update entry is meant for: the one with its id, else the first
\* of the fetched items whose name contains its name token or is contained in
\* it; NULL when there is none
MeantTarget(update, items) ==
    IF ~IsNull(update.itemId) THEN update.itemId
    ELSE IF IsNull(update.itemName) THEN NULL
    ELSE LET item == FindByName(items, Val(update.itemName))
         IN  IF IsNull(item) THEN NULL ELSE Some(Val(item).id)

\* the update entries a step passes without issuing a statement for them
PassedOver(p) ==
    IF req[p].pc = "updates" THEN (req[p].u + 1)..(req'[p].u - 1)
    ELSE IF req[p].pc = "claude" THEN 1..(req'[p].u - 1)
    ELSE {}

\* C24: in every reconciliation endpoint the statement of an update entry
\* changes the item the entry is meant for (by id, else by name) and no other
\* row, and an entry is passed over without a statement only when it is meant
\* for no item.
C24_UpdateTargetResolution ==
    [][\A p \in Procs :
        /\ UpdateCompletes(p, TRUE) =>
               LET update == req[p].claudeResponse.updates[req[p].u]
                   target == MeantTarget(update, req[p].items)
               IN  /\ ~IsNull(target)
                   /\ \A i \in 1..Len(store) :
                          IF store[i].id = Val(target)
                          THEN /\ store'[i].last_purchased = update.newLastPurchased
                               /\ store'[i].estimated_duration_days = update.newDurationDays
                          ELSE store'[i] = store[i]
        /\ ( /\ req'[p].endpoint \in ReconcileEndpoints
             /\ req'[p].status # 500 ) =>
               \A k \in PassedOver(p) :
                   IsNull(MeantTarget(req'[p].claudeResponse.updates[k], req'[p].items)) ]_vars

(***************************************************************************)
(* The two triggers side by side (checked under SpecReminders).            *)
(***************************************************************************)
\* C25: nothing holds one reminder pipeline back while the other is between
\* its read and its log entry: the trigger can fire and reads the low items
\* the table holds, its send adds an e-mail and its log statement adds an
\* entry, whatever the other pipeline has read, sent or logged.
C25_NoMutualExclusion ==
    \A t \in Triggers, s \in Triggers :
        (s # t /\ rem[s].pc \in {"send", "log"}) =>
            /\ (rem[t].pc = "idle" /\ Len(outbox) + Sending < MaxLogs) =>
                   ENABLED ( /\ ReminderStart(t, TRUE)
                             /\ rem'[t].lowItems =
                                    getItemsRunningLow(SelectActive(store), now) )
            /\ rem[t].pc = "send" =>
                   ENABLED ( /\ SendCompletes(t, TRUE)
                             /\ Len(outbox') = Len(outbox) + 1 )
            /\ rem[t].pc = "log" =>
                   ENABLED ( /\ LogCompletes(t, TRUE)
                             /\ Len(email_logs') = Len(email_logs) + 1 )

\* both triggers have read the same two low items and both have sent the same
\* e-mail before either has logged; the log statements of both are under way
C25_Witness ==
    /\ rem["manual"].pc = "log"
    /\ rem["automatic"].pc = "log"
    /\ rem["manual"].lowItems = rem["automatic"].lowItems
    /\ NamesOf(rem["manual"].lowItems) = <<Milk, DogFood>>
    /\ Len(outbox) = 2
    /\ outbox[1].text = outbox[2].text
    /\ outbox[1].type # outbox[2].type
    /\ email_logs = <<>>

(***************************************************************************)
(* SpecConcurrent: two reconciliation requests in flight at once, each     *)
(* with an update entry for Milk.                                          *)
(***************************************************************************)
\* the slots of two requests in flight at once
ConcurrentProcs == {1, 2}

ConcurrentTables ==
    { << Row(1, Milk, "Food", Some(Day0 - 10), Some(14), "active", 0) >> }

\* update entries for Milk: bought today, lasts 30 days; bought yesterday,
\* lasts 7 days
UYesterday == U(Some(1), Some(Milk), Some(Day0 - 1), Some(7))

ConcurrentResponses ==
    { TextResponse(<<"DOC">>, Doc(<<UFull>>, <<>>, <<>>)),
      TextResponse(<<"DOC">>, Doc(<<UYesterday>>, <<>>, <<>>)) }

InitConcurrent ==
    /\ store \in ConcurrentTables
    /\ email_logs = <<>>
    /\ outbox = <<>>
    /\ req = [p \in ConcurrentProcs |-> IdleReq]
    /\ rem = [t \in Triggers |-> IdleRem]
    /\ ui = IdleUi
    /\ now = Day0 * TicksPerDay
    /\ env \in ItemsEnvs

NextConcurrent ==
    \/ \E p \in ConcurrentProcs, e \in {"api", "sms"}, ok \in BOOLEAN : Receive(p, e, ok)
    \/ \E p \in ConcurrentProcs, resp \in ConcurrentResponses : ClaudeResponds(p, resp)
    \/ \E p \in ConcurrentProcs, ok \in BOOLEAN : UpdateCompletes(p, ok)
    \/ \E p \in ConcurrentProcs : Reset(p)

SpecConcurrent == InitConcurrent /\ [][NextConcurrent]_vars

\* C26: the UPDATE of an update entry is unconditional: whatever another
\* request has written to the row since this request read it, the statement
\* can run, overwrites last_purchased and estimated_duration_days with its
\* entry's values and the request reports the update as applied.
C26_LostUpdate ==
    \A p \in ConcurrentProcs :
        req[p].pc = "updates" =>
            LET update == req[p].claudeResponse.updates[req[p].u]
                id     == Val(UpdateTarget(req[p].endpoint, update, req[p].items))
            IN  ENABLED ( /\ UpdateCompletes(p, TRUE)
                          /\ store'[id].last_purchased = update.newLastPurchased
                          /\ store'[id].estimated_duration_days = update.newDurationDays
                          /\ req'[p].updatesApplied =
                                 <<Line("Updated", update.itemName)>>
                          /\ req'[p].status = 200 )

\* both requests read Milk as it was at the start, request 1 wrote "bought
\* today, 30 days", request 2 wrote over it; both answered 200 with their
\* update as applied, and the row holds request 2's values alone
C26_Witness ==
    /\ \A p \in ConcurrentProcs :
           /\ req[p].pc = "done" /\ req[p].status = 200
           /\ req[p].items = << Row(1, Milk, "Food", Some(Day0 - 10), Some(14), "active", 0) >>
           /\ req[p].updatesApplied = <<Line("Updated", Some(Milk))>>
    /\ req[1].claudeResponse.updates = <<UFull>>
    /\ req[2].claudeResponse.updates = <<UYesterday>>
    /\ store[1].last_purchased = Some(Day0 - 1)
    /\ store[1].estimated_duration_days = Some(7)

(***************************************************************************)
(* The notification log (checked under SpecReminders).                     *)
(***************************************************************************)
\* C27: email_logs only grows, one entry at a time and at its end; an entry
\* is the e-mail of a pipeline whose send has succeeded (SendGrid holds that
\* e-mail), tagged with the pipeline's trigger; a pipeline comes to its log
\* statement only through a send that succeeded, and a failed send ends it
\* with nothing appended.
C27_LogFollowsSend ==
    [][ /\ Len(email_logs') >= Len(email_logs)
        /\ SubSeq(email_logs', 1, Len(email_logs)) = email_logs
        /\ email_logs' # email_logs =>
               \E t \in Triggers :
                   /\ rem[t].pc = "log"
                   /\ email_logs' =
                          Append(email_logs,
                                 [email_content |-> Val(rem[t].emailContent), type |-> t])
                   /\ \E k \in 1..Len(outbox) :
                          outbox[k] = [text |-> Val(rem[t].emailContent), type |-> t]
        /\ \A t \in Triggers :
               /\ (rem[t].pc # "log" /\ rem'[t].pc = "log") =>
                      /\ rem[t].pc = "send"
                      /\ outbox' = Append(outbox, [text |-> Val(rem[t].emailContent),
                                                   type |-> t])
               /\ SendCompletes(t, FALSE) =>
                      /\ email_logs' = email_logs
                      /\ rem'[t].pc = "done" ]_vars

\* the manual trigger has sent and logged its e-mail; the send of the
\* scheduled check has failed and has left no entry
C27_Witness ==
    /\ Len(outbox) = 1 /\ outbox[1].type = "manual"
    /\ email_logs = << [email_content |-> outbox[1].text, type |-> "manual"] >>
    /\ rem["manual"].pc = "done" /\ rem["manual"].status = 200
    /\ rem["automatic"].pc = "done" /\ rem["automatic"].status = 500
    /\ Len(rem["automatic"].lowItems) > 0

(***************************************************************************)
(* Removals and items that are deleted (checked under Spec).               *)
(***************************************************************************)
\* C28: the statement of one removal entry turns at most one item from
\* active to deleted, and every row it changes was active, has a name that
\* matches the entry's token and differs from before in its status alone.
C28_RemovalDeletesAtMostOne ==
    [][\A p \in Procs :
        RemoveCompletes(p, TRUE) =>
            LET token == Val(req[p].claudeResponse.removeItems[req[p].r].itemName)
            IN  /\ Cardinality({ i \in 1..Len(store) :
                                   /\ store[i].status = "active"
                                   /\ store'[i].status = "deleted" }) <= 1
                /\ \A i \in 1..Len(store) :
                       store'[i] # store[i] =>
                           /\ store[i].status = "active"
                           /\ ILikeContains(store[i].name, token)
                           /\ store'[i] = [store[i] EXCEPT !.status = "deleted"] ]_vars

\* C29: no step of a reconciliation changes last_purchased or
\* estimated_duration_days of a row whose status is deleted, be it deleted
\* from the start or deleted by another request while the reconciliation
\* was under way.
C29_DeletedItemIsNotUpdated ==
    [][\A i \in 1..Len(store) :
        store[i].status = "deleted" =>
            /\ store'[i].last_purchased = store[i].last_purchased
            /\ store'[i].estimated_duration_days = store[i].estimated_duration_days ]_vars

(***************************************************************************)
(* SpecClient: the client's update box (processNaturalLanguageResponse)    *)
(* and the handler that answers it.                                        *)
(***************************************************************************)
\* what the user has typed into the box, word by word
ClientTexts == { <<milk, Ordered>>, <<Eggs, Ordered>>, <<Bread, Good>> }

\* JSON.stringify({ response: emailResponse }): the body the client posts;
\* a field the object lacks is undefined
ClientBody(emailResponse) == [response |-> Some(emailResponse), userInput |-> NULL]

\* const { userInput } = req.body
BodyUserInput(body) == body.userInput

\* the user submits the box: POST /api/process-response arrives with the
\* client's body and the handler runs up to its call of the interpreter
UiSubmit(p, emailResponse, ok) ==
    ReceiveInput(p, "api", ok, BodyUserInput(ClientBody(emailResponse)))

InitClient == InitWith(InitTables, Envs, {Day0 * TicksPerDay})

NextClient ==
    \/ \E p \in Procs, text \in ClientTexts, ok \in BOOLEAN : UiSubmit(p, text, ok)
    \/ \E p \in Procs, resp \in FallbackResponses : ClaudeResponds(p, resp)
    \/ \E p \in Procs, ok \in BOOLEAN : UpdateCompletes(p, ok)
    \/ \E p \in Procs : Reset(p)
    \/ UiFetch

SpecClient == InitClient /\ [][NextClient]_vars

\* C30: the text the user submits through the update box is the utterance
\* the handler of POST /api/process-response hands to the interpreter.
C30_SubmittedTextIsTheUtterance ==
    [][\A p \in Procs, text \in ClientTexts :
        UiSubmit(p, text, TRUE) => req'[p].userInput = Some(text)]_vars

====
